---- MODULE Spec2Model ----
(***************************************************************************)
(* The two launchers of the repository, agent-noshell (agent-noshell.c)    *)
(* and agent-noshrc (agent-noshrc.c), as one state machine.  A behaviour   *)
(* is one invocation of one launcher: the inputs (which launcher, argc,    *)
(* argv, the inherited environment) are fixed by Init, and every action is *)
(* one statement group of main().                                          *)
(*                                                                         *)
(* C strings are TLA+ strings; strcmp(a, b) == 0 is a = b.  An environment *)
(* entry "KEY=VALUE" is the pair <<KEY, VALUE>>.  An array is a function   *)
(* whose domain is the set of slots written so far, so that a write past   *)
(* the end of the array is visible as an index outside 0..size-1.  A line   *)
(* of output is the tuple of its format string and its arguments; the      *)
(* pictograph that opens agent-noshrc's messages is left out.              *)
(***************************************************************************)
EXTENDS Integers, Sequences, FiniteSets, TLC

VARIABLES
    variant,      \* which launcher runs: NOSHELL or NOSHRC
    argc,         \* main's argc
    argv,         \* main's argv, slots 0..argc, argv[argc] = NULL
    inherited,    \* the environment the caller handed over (never changes)
    line60,       \* what the build makes of agent-noshrc.c:60 (never changes)
    pc,           \* position in main()
    environ,      \* the process environment (clearenv/setenv/getenv act on it)
    python_argv,  \* agent-noshell.c:27, slots written so far
    agent_args,   \* agent-noshrc.c:25, slots written so far
    i,            \* the copy loops' index
    clean_env,    \* agent-noshrc.c:37/60, the table handed to execve
    stdout,       \* lines written to standard output
    stderr,       \* lines written to standard error
    exitCode,     \* <<n>> once main returned n, RUNNING until then
    errno,        \* errno left by a failed exec
    execCalls,    \* number of exec-family calls issued
    execPath,     \* first argument of the exec call
    execArgv,     \* the argument vector the exec call reads, sentinel included
    execEnvp      \* the environment table the exec call reads, sentinel included

vars == <<variant, argc, argv, inherited, line60, pc, environ, python_argv, agent_args,
          i, clean_env, stdout, stderr, exitCode, errno, execCalls, execPath,
          execArgv, execEnvp>>

---------------------------------------------------------------------------
(* Values *)

NOSHELL == "agent-noshell"
NOSHRC == "agent-noshrc"

\* The null pointer among char* values, and the null entry ending an
\* environment table.
NULL == "<NULL>"
ENV_NULL == <<>>

\* exitCode is <<>> while main has not returned and <<n>> once it returned n.
RUNNING == <<>>

\* Bounds of the explored inputs.  Short argument lists (argc in 0..MaxArgc)
\* are explored with every content over ProgNames and ArgValues and every
\* inherited environment; long ones (argc up to MaxLongArgc, around the
\* capacity of agent-noshell's buffer) with one content each.
MaxArgc == 3
MaxLongArgc == 1025

\* agent-noshell.c:27  char *python_argv[1024];
Capacity == 1024
\* agent-noshell.c:35  i < 1020
LoopLimit == 1020

ProgNames == {"agent", "--help"}
ArgValues == {"--help", "req", "1"}

\* Caller argument k of a long argument list: distinct at every position, so
\* that a reordering or a shift of the copy is visible.
LongArg(k) == ToString(k)

---------------------------------------------------------------------------
(* The C library's environment functions, on a sequence of <<KEY, VALUE>>  *)
(* entries.                                                                *)

HasKey(e, name) == \E k \in 1..Len(e) : e[k][1] = name

FirstIndex(e, name) ==
    CHOOSE k \in 1..Len(e) : e[k][1] = name /\ \A j \in 1..(k - 1) : e[j][1] # name

\* getenv(name): the value of the first entry with that key, or NULL.
getenv(e, name) == IF HasKey(e, name) THEN e[FirstIndex(e, name)][2] ELSE NULL

\* The mutant of clearenv that leaves the inherited environment in place.
clearenv_keeps(e) == e

\* clearenv(): the environment becomes empty.
clearenv(e) == <<>>

\* setenv(name, value, overwrite): replaces the entry with that key when
\* there is one and overwrite is non-zero, appends a new entry when there is
\* none.
setenv(e, name, value, overwrite) ==
    IF HasKey(e, name)
    THEN IF overwrite # 0
         THEN [e EXCEPT ![FirstIndex(e, name)] = <<name, value>>]
         ELSE e
    ELSE Append(e, <<name, value>>)

\* The table an exec call without an envp argument reads: environ, which the
\* C library keeps terminated by a null entry.
EnvTable(e) == e \o <<ENV_NULL>>

---------------------------------------------------------------------------
(* agent-noshell.c *)

\* agent-noshell.c:41, the program execv names.
NoShellInterpreter == "/usr/bin/python3"

\* agent-noshell.c:28-31, python_argv[0..3].
NoShellPrefix ==
    <<NoShellInterpreter, "-E", "-s", "/root/Tools/Mobile-Agent/agent-direct">>

\* The mutant of the usage test that lets an empty request through.
MissingRequest_OffByOne(n) == n < 1

\* agent-noshell.c:11, argc < 2.
MissingRequest(n) == n < 2

\* agent-noshell.c:17-24: clearenv(), then the five setenv calls.
MinimalEnv(e) ==
    setenv(
      setenv(
        setenv(
          setenv(
            setenv(clearenv(e), "PATH", "/usr/bin:/bin:/usr/local/bin", 1),
            "PYTHONIOENCODING", "utf-8", 1),
          "PYTHONPATH", "/root/Tools/Mobile-Agent", 1),
        "PYTHONDONTWRITEBYTECODE", "1", 1),
      "PYTHONNOUSERSITE", "1", 1)

\* The mutant of the copy loop's test without the cap on i.
NoShellCopyGuard_NoCap(k, n) == k < n

\* agent-noshell.c:35, the copy loop's test  i < argc && i < 1020.
NoShellCopyGuard(k, n) == k < n /\ k < LoopLimit

\* The mutant of the destination slot that starts one slot early.
NoShellSlot_OffByOne(k) == k + 2

\* agent-noshell.c:36 and :38, the slot  i + 3.
NoShellSlot(k) == k + 3

---------------------------------------------------------------------------
(* agent-noshrc.c *)

\* The mutant that names the interpreter without its directory.
NoShrcInterpreter_Relative == "python"

\* agent-noshrc.c:67, the program execve names.
NoShrcInterpreter == "/root/.mobile-agent/.claude_venv/bin/python"

\* agent-noshrc.c:26-27, agent_args[0..1].
NoShrcPrefix == <<"/root/.mobile-agent/.claude_venv/bin/python", "/root/.mobile-agent/agent">>

\* The mutant of the --help test that looks at every caller argument.
IsHelp_AnyPosition(n, av) == \E k \in 1..(n - 1) : av[k] = "--help"

\* agent-noshrc.c:15, argc > 1 && strcmp(argv[1], "--help") == 0.
IsHelp(n, av) == n > 1 /\ av[1] = "--help"

\* agent-noshrc.c:37-44, the initializer of clean_env.
clean_env_init ==
    << <<"PATH", "/usr/bin:/bin:/usr/local/bin:/sbin:/usr/sbin">>,
       <<"PYTHONPATH", "/root/.mobile-agent">>,
       <<"PYTHONIOENCODING", "utf-8">>,
       <<"PYTHONNOUSERSITE", "1">>,
       <<"PYTHONDONTWRITEBYTECODE", "1">>,
       ENV_NULL >>

\* The mutant of the debug table with the search path entered twice.
clean_env_debug_dup ==
    << <<"PATH", "/usr/bin:/bin:/usr/local/bin:/sbin:/usr/sbin">>,
       <<"PYTHONPATH", "/root/.mobile-agent">>,
       <<"PYTHONIOENCODING", "utf-8">>,
       <<"PYTHONNOUSERSITE", "1">>,
       <<"PATH", "/usr/bin:/bin:/usr/local/bin:/sbin:/usr/sbin">>,
       <<"AGENT_DEBUG_SUBPROCESS", "1">>,
       ENV_NULL >>

\* agent-noshrc.c:51-59, clean_env_debug.
clean_env_debug ==
    << <<"PATH", "/usr/bin:/bin:/usr/local/bin:/sbin:/usr/sbin">>,
       <<"PYTHONPATH", "/root/.mobile-agent">>,
       <<"PYTHONIOENCODING", "utf-8">>,
       <<"PYTHONNOUSERSITE", "1">>,
       <<"PYTHONDONTWRITEBYTECODE", "1">>,
       <<"AGENT_DEBUG_SUBPROCESS", "1">>,
       ENV_NULL >>

\* agent-noshrc.c:48, debug_flag && strcmp(debug_flag, "1") == 0.
DebugRequested(debug_flag) == debug_flag # NULL /\ debug_flag = "1"

\* agent-noshrc.c:60, clean_env = clean_env_debug.  clean_env is declared as
\* an array (line 37) and C accepts no assignment to an array: the compiler
\* rejects the file as it stands.  A program exists only once the line is
\* repaired, and the source does not say how; the two one-line repairs are
\* both outcomes of the build: "swapped" (clean_env made a pointer, so that
\* the assignment takes effect) and "dropped" (the rejected statement
\* removed, so that clean_env keeps its initializer).
Line60Readings == {"swapped", "dropped"}

\* agent-noshrc.c:37-61: the table execve is handed when the environment is
\* e and line 60 is read as `reading`.
CleanEnvFor(e, reading) ==
    IF DebugRequested(getenv(e, "AGENT_DEBUG_SUBPROCESS")) /\ reading = "swapped"
    THEN clean_env_debug
    ELSE clean_env_init

---------------------------------------------------------------------------
(* Both launchers *)

\* agent-noshrc.c:19: return 0.
EXIT_SUCCESS == 0

\* The mutant that reports a failed exec as success.
EXIT_FAILURE_Zero == EXIT_SUCCESS

\* agent-noshell.c:13 and :45, agent-noshrc.c:71: return 1.
EXIT_FAILURE == 1

\* The argument vector an exec call reads from an array: slot 0 up to and
\* including the first slot holding NULL.
TermIndex(buf) ==
    CHOOSE n \in DOMAIN buf :
        buf[n] = NULL /\ \A k \in DOMAIN buf : k < n => buf[k] # NULL

ArgVector(buf) == [k \in 1..(TermIndex(buf) + 1) |-> buf[k - 1]]

\* The array with slot k written.
Store(buf, k, v) == [j \in (DOMAIN buf) \cup {k} |-> IF j = k THEN v ELSE buf[j]]

EmptyArray == [j \in {} |-> NULL]

\* The errors an exec call can leave in errno when it returns.
ExecErrors == {"ENOENT", "EACCES"}

---------------------------------------------------------------------------
(* Inputs *)

\* argv for argc = n: slots 0..n, the program name in slot 0 (when n > 0),
\* the caller's arguments after it, NULL in slot n.
MakeArgv(n, name, rest) ==
    [k \in 0..n |-> IF k = n THEN NULL ELSE IF k = 0 THEN name ELSE rest[k]]

ShortArgvs(n) ==
    { MakeArgv(n, name, rest) : name \in ProgNames, rest \in [1..(n - 1) -> ArgValues] }

LongArgv(n) == MakeArgv(n, "agent", [k \in 1..(n - 1) |-> LongArg(k)])

\* The argument counts of the long lists: from one slot below the loop's cap
\* to MaxLongArgc.
LongArgcs == (LoopLimit - 1)..MaxLongArgc

\* Inherited environments: each of a search path, a preload and the debug
\* toggle (with several values, and set twice with different values) present
\* or absent.
InheritedEnvs ==
    { a \o b \o c :
        a \in { <<>>, << <<"PATH", "/evil/bin">> >> },
        b \in { <<>>, << <<"LD_PRELOAD", "/tmp/evil.so">> >> },
        c \in { <<>> } \cup
              { << <<"AGENT_DEBUG_SUBPROCESS", v>> >> : v \in {"1", "0", "", "11"} } \cup
              { << <<"AGENT_DEBUG_SUBPROCESS", "1">>, <<"AGENT_DEBUG_SUBPROCESS", "0">> >>,
                << <<"AGENT_DEBUG_SUBPROCESS", "0">>, <<"AGENT_DEBUG_SUBPROCESS", "1">> >> } }

LongEnvs ==
    { <<>>,
      << <<"PATH", "/evil/bin">>, <<"AGENT_DEBUG_SUBPROCESS", "1">> >> }

Variants == {NOSHELL, NOSHRC}

---------------------------------------------------------------------------
(* The state on entry to main() *)

Init ==
    /\ variant \in Variants
    /\ line60 \in (IF variant = NOSHRC THEN Line60Readings ELSE {"absent"})
    /\ \/ /\ argc \in 0..MaxArgc
          /\ argv \in ShortArgvs(argc)
          /\ inherited \in InheritedEnvs
       \/ /\ argc \in LongArgcs
          /\ argv = LongArgv(argc)
          /\ inherited \in LongEnvs
    /\ pc = "start"
    /\ environ = inherited
    /\ python_argv = EmptyArray
    /\ agent_args = EmptyArray
    /\ i = 0
    /\ clean_env = <<>>
    /\ stdout = <<>>
    /\ stderr = <<>>
    /\ exitCode = RUNNING
    /\ errno = "0"
    /\ execCalls = 0
    /\ execPath = NULL
    /\ execArgv = <<>>
    /\ execEnvp = <<>>

inputs == <<variant, argc, argv, inherited, line60>>
execState == <<errno, execCalls, execPath, execArgv, execEnvp>>

\* An exec-family call: it is counted and what it was handed is recorded;
\* then either the process image is replaced (nothing of main runs again) or
\* the call returns with errno set.
Exec(path, vector, table) ==
    /\ execCalls' = execCalls + 1
    /\ execPath' = path
    /\ execArgv' = vector
    /\ execEnvp' = table
    /\ \/ /\ pc' = "replaced"
          /\ errno' = errno
       \/ /\ pc' = "exec_returned"
          /\ errno' \in ExecErrors

---------------------------------------------------------------------------
(* agent-noshell.c, main *)

\* Lines 11-14: no request, usage message, return 1.
NoShell_Usage ==
    /\ variant = NOSHELL /\ pc = "start"
    /\ MissingRequest(argc)
    /\ stderr' = Append(stderr, <<"Usage: agent-noshell <request>\n">>)
    /\ exitCode' = <<EXIT_FAILURE>>
    /\ pc' = "done"
    /\ UNCHANGED <<inputs, environ, python_argv, agent_args, i, clean_env, stdout,
                   execState>>

\* Lines 17-24: clearenv and the five setenv calls.
NoShell_SetEnv ==
    /\ variant = NOSHELL /\ pc = "start"
    /\ ~MissingRequest(argc)
    /\ environ' = MinimalEnv(environ)
    /\ pc' = "build"
    /\ UNCHANGED <<inputs, python_argv, agent_args, i, clean_env, stdout, stderr,
                   exitCode, execState>>

\* Lines 27-35: the fixed prefix in python_argv[0..3], and i = 1.
NoShell_Prefix ==
    /\ variant = NOSHELL /\ pc = "build"
    /\ python_argv' = [k \in 0..(Len(NoShellPrefix) - 1) |-> NoShellPrefix[k + 1]]
    /\ i' = 1
    /\ pc' = "copy"
    /\ UNCHANGED <<inputs, environ, agent_args, clean_env, stdout, stderr, exitCode,
                   execState>>

\* Lines 35-37: one iteration of the copy loop.
NoShell_Copy ==
    /\ variant = NOSHELL /\ pc = "copy"
    /\ NoShellCopyGuard(i, argc)
    /\ python_argv' = Store(python_argv, NoShellSlot(i), argv[i])
    /\ i' = i + 1
    /\ UNCHANGED <<inputs, pc, environ, agent_args, clean_env, stdout, stderr,
                   exitCode, execState>>

\* Line 38: the loop is over, python_argv[i + 3] = NULL.
NoShell_Terminate ==
    /\ variant = NOSHELL /\ pc = "copy"
    /\ ~NoShellCopyGuard(i, argc)
    /\ python_argv' = Store(python_argv, NoShellSlot(i), NULL)
    /\ pc' = "exec"
    /\ UNCHANGED <<inputs, environ, agent_args, i, clean_env, stdout, stderr,
                   exitCode>>
    /\ UNCHANGED execState

\* Line 41: execv("/usr/bin/python3", python_argv), with the process
\* environment.
NoShell_Execv ==
    /\ variant = NOSHELL /\ pc = "exec"
    /\ Exec(NoShellInterpreter, ArgVector(python_argv), EnvTable(environ))
    /\ UNCHANGED <<inputs, environ, python_argv, agent_args, i, clean_env, stdout,
                   stderr, exitCode>>

\* Lines 44-45: execv returned; perror, return 1.
NoShell_Failed ==
    /\ variant = NOSHELL /\ pc = "exec_returned"
    /\ stderr' = Append(stderr, <<"Failed to execute Python: %s\n", errno>>)
    /\ exitCode' = <<EXIT_FAILURE>>
    /\ pc' = "done"
    /\ UNCHANGED <<inputs, environ, python_argv, agent_args, i, clean_env, stdout,
                   execState>>

---------------------------------------------------------------------------
(* agent-noshrc.c, main *)

\* Lines 15-20: --help as the first argument, banner, return 0.
NoShrc_Help ==
    /\ variant = NOSHRC /\ pc = "start"
    /\ IsHelp(argc, argv)
    /\ stdout' = stdout \o
          << <<"Mobile Agent C Wrapper (ARM64)\n">>,
             <<"Prevents .zshrc loading by using execve() directly\n">>,
             <<"Usage: %s <agent-request>\n", argv[0]>> >>
    /\ exitCode' = <<EXIT_SUCCESS>>
    /\ pc' = "done"
    /\ UNCHANGED <<inputs, environ, python_argv, agent_args, i, clean_env, stderr,
                   execState>>

\* Lines 22-30: the start message, the fixed prefix in agent_args[0..1], and
\* i = 1.
NoShrc_Prefix ==
    /\ variant = NOSHRC /\ pc = "start"
    /\ ~IsHelp(argc, argv)
    /\ stderr' = Append(stderr, <<"C WRAPPER (ARM64): Starting with %d args\n", argc>>)
    /\ agent_args' = [k \in 0..(Len(NoShrcPrefix) - 1) |-> NoShrcPrefix[k + 1]]
    /\ i' = 1
    /\ pc' = "copy"
    /\ UNCHANGED <<inputs, environ, python_argv, clean_env, stdout, exitCode,
                   execState>>

\* Lines 30-33: one iteration of the copy loop.
NoShrc_Copy ==
    /\ variant = NOSHRC /\ pc = "copy"
    /\ i < argc
    /\ agent_args' = Store(agent_args, i + 1, argv[i])
    /\ stderr' = Append(stderr, <<"C WRAPPER: Arg %d: %s\n", i, argv[i]>>)
    /\ i' = i + 1
    /\ UNCHANGED <<inputs, pc, environ, python_argv, clean_env, stdout, exitCode,
                   execState>>

\* Line 34: the loop is over, agent_args[argc + 1] = NULL.
NoShrc_Terminate ==
    /\ variant = NOSHRC /\ pc = "copy"
    /\ ~(i < argc)
    /\ agent_args' = Store(agent_args, argc + 1, NULL)
    /\ pc' = "env"
    /\ UNCHANGED <<inputs, environ, python_argv, i, clean_env, stdout, stderr,
                   exitCode, execState>>

\* Lines 37-61: the clean table, with the debug entry when the inherited
\* toggle asks for it.
NoShrc_CleanEnv ==
    /\ variant = NOSHRC /\ pc = "env"
    /\ clean_env' = CleanEnvFor(environ, line60)
    /\ stderr' = IF DebugRequested(getenv(environ, "AGENT_DEBUG_SUBPROCESS"))
                 THEN Append(stderr, <<"C WRAPPER: Adding debug flag\n">>)
                 ELSE stderr
    /\ pc' = "exec"
    /\ UNCHANGED <<inputs, environ, python_argv, agent_args, i, stdout, exitCode,
                   execState>>

\* Lines 63-67: the message, then execve(path, agent_args, clean_env).
NoShrc_Execve ==
    /\ variant = NOSHRC /\ pc = "exec"
    /\ stderr' = Append(stderr, <<"C WRAPPER: Executing with clean environment\n">>)
    /\ Exec(NoShrcInterpreter, ArgVector(agent_args), clean_env)
    /\ UNCHANGED <<inputs, environ, python_argv, agent_args, i, clean_env, stdout,
                   exitCode>>

\* Lines 70-71: execve returned; perror, return 1.
NoShrc_Failed ==
    /\ variant = NOSHRC /\ pc = "exec_returned"
    /\ stderr' = Append(stderr, <<"C WRAPPER: execve failed: %s\n", errno>>)
    /\ exitCode' = <<EXIT_FAILURE>>
    /\ pc' = "done"
    /\ UNCHANGED <<inputs, environ, python_argv, agent_args, i, clean_env, stdout,
                   execState>>

---------------------------------------------------------------------------

Next ==
    \/ NoShell_Usage
    \/ NoShell_SetEnv
    \/ NoShell_Prefix
    \/ NoShell_Copy
    \/ NoShell_Terminate
    \/ NoShell_Execv
    \/ NoShell_Failed
    \/ NoShrc_Help
    \/ NoShrc_Prefix
    \/ NoShrc_Copy
    \/ NoShrc_Terminate
    \/ NoShrc_CleanEnv
    \/ NoShrc_Execve
    \/ NoShrc_Failed

Spec == Init /\ [][Next]_vars

\* main() is sequential code on a running process: whenever a statement can
\* execute, it eventually does.
FairSpec == Spec /\ WF_vars(Next)

---------------------------------------------------------------------------
(* Properties *)

DEBUG_KEY == "AGENT_DEBUG_SUBPROCESS"

\* The length of the fixed prefix, by launcher, as the specification gives it.
PrefixLen == IF variant = NOSHELL THEN 4 ELSE 2

\* The fixed prefix, by launcher, written out.
ExpectedPrefix ==
    IF variant = NOSHELL
    THEN <<"/usr/bin/python3", "-E", "-s", "/root/Tools/Mobile-Agent/agent-direct">>
    ELSE <<"/root/.mobile-agent/.claude_venv/bin/python", "/root/.mobile-agent/agent">>

\* The exec vector is the prefix-length entries, then the first n caller
\* arguments in order, then the sentinel, and nothing else.
PassesThrough(n) ==
    /\ Len(execArgv) = n + PrefixLen + 1
    /\ execArgv[Len(execArgv)] = NULL
    /\ \A k \in 1..n : execArgv[PrefixLen + k] = argv[k]

\* C1 as stated: for every caller argument list of length L, 0 <= L <=
\* capacity-1 (capacity 1024), the vector handed to the replacement call has
\* L + prefix + 1 entries, ends with the sentinel, and carries the caller's
\* arguments 1..L in order.  (L is argc - 1: argument 0 is the program name.)
C1_AsStated ==
    (execCalls = 1 /\ argc >= 1 /\ argc - 1 <= Capacity - 1)
        => PassesThrough(argc - 1)

\* C1 amended: the same, for agent-noshell only up to L = 1019 (capacity less
\* the 4 prefix slots and the sentinel's slot); for agent-noshrc, whose
\* buffer is sized from argc, for every L.
C1_PassThrough ==
    (execCalls = 1 /\ argc >= 1 /\ (variant = NOSHELL => argc - 1 <= Capacity - 5))
        => PassesThrough(argc - 1)

\* C1's case: agent-noshell issued the call with the largest argument list
\* that fits, 1019 caller arguments in a 1024-entry vector.
C1_Witness ==
    /\ variant = NOSHELL /\ execCalls = 1
    /\ argc - 1 = Capacity - 5
    /\ Len(execArgv) = Capacity

\* The table a launcher hands to its replacement call when the inherited
\* environment is e (for agent-noshrc: as built with line 60 read as r).
TableFor(v, r, e) ==
    IF v = NOSHELL THEN EnvTable(MinimalEnv(e)) ELSE CleanEnvFor(e, r)

ExploredEnvs == InheritedEnvs \cup LongEnvs

\* C2: the table handed to the replacement call holds no entry of the
\* inherited environment other than the debug toggle (and that only in
\* agent-noshrc), and it is the table the launcher builds from any other
\* inherited environment that agrees on AGENT_DEBUG_SUBPROCESS (for
\* agent-noshell: from any other inherited environment at all).
C2_EnvIndependent ==
    execCalls = 1 =>
        /\ \A k \in 1..(Len(execEnvp) - 1) :
              (\E j \in 1..Len(inherited) : inherited[j] = execEnvp[k])
                 => (variant = NOSHRC /\ execEnvp[k][1] = DEBUG_KEY)
        /\ \A e \in ExploredEnvs :
              (variant = NOSHELL \/ getenv(e, DEBUG_KEY) = getenv(inherited, DEBUG_KEY))
                 => execEnvp = TableFor(variant, line60, e)

\* C2's case: agent-noshell issued the call although the caller had set a
\* search path and a preload.
C2_Witness ==
    /\ variant = NOSHELL /\ execCalls = 1
    /\ HasKey(inherited, "PATH") /\ HasKey(inherited, "LD_PRELOAD")
    /\ HasKey(inherited, DEBUG_KEY)

\* No key occurs twice among the entries of table t (its last entry is the
\* sentinel).
NoDuplicateKeys(t) ==
    \A j, k \in 1..(Len(t) - 1) : j # k => t[j][1] # t[k][1]

\* Table t ends with the null entry and holds no other.
SentinelTerminated(t) ==
    /\ Len(t) >= 1
    /\ t[Len(t)] = ENV_NULL
    /\ \A k \in 1..(Len(t) - 1) : t[k] # ENV_NULL

\* C3: whenever the replacement call has been issued, the table it was
\* handed ends with the sentinel and no key occurs twice in it.
C3_TableWellFormed ==
    execCalls = 1 => (SentinelTerminated(execEnvp) /\ NoDuplicateKeys(execEnvp))

\* C3's case: agent-noshrc issued the call on the debug branch (six entries
\* and the sentinel).
C3_Witness ==
    /\ variant = NOSHRC /\ execCalls = 1
    /\ Len(execEnvp) = 7
    /\ getenv(inherited, DEBUG_KEY) = "1"

\* The five entries agent-noshrc always passes, written out.
FixedFive ==
    << <<"PATH", "/usr/bin:/bin:/usr/local/bin:/sbin:/usr/sbin">>,
       <<"PYTHONPATH", "/root/.mobile-agent">>,
       <<"PYTHONIOENCODING", "utf-8">>,
       <<"PYTHONNOUSERSITE", "1">>,
       <<"PYTHONDONTWRITEBYTECODE", "1">> >>

\* The inherited environment sets the toggle to exactly "1", as getenv
\* reads it.
InheritedDebugIsOne == getenv(inherited, DEBUG_KEY) = "1"

\* C4 as stated: in agent-noshrc the table handed to the replacement call contains
\* AGENT_DEBUG_SUBPROCESS=1 exactly when the inherited environment sets the
\* variable to "1"; otherwise it has no entry with that key; in both cases
\* the rest of the table is the five fixed entries.
C4_AsStated ==
    (variant = NOSHRC /\ execCalls = 1) =>
        /\ (\E k \in 1..Len(execEnvp) : execEnvp[k] = <<DEBUG_KEY, "1">>)
              <=> InheritedDebugIsOne
        /\ InheritedDebugIsOne
              => execEnvp = FixedFive \o << <<DEBUG_KEY, "1">>, ENV_NULL >>
        /\ ~InheritedDebugIsOne
              => /\ execEnvp = FixedFive \o <<ENV_NULL>>
                 /\ \A k \in 1..(Len(execEnvp) - 1) : execEnvp[k][1] # DEBUG_KEY

\* The last line on standard error is the report of the failed exec: a
\* non-empty text carrying the reason left in errno.
FailureReported ==
    /\ Len(stderr) >= 1
    /\ Len(stderr[Len(stderr)]) = 2
    /\ stderr[Len(stderr)][1] # ""
    /\ stderr[Len(stderr)][2] = errno
    /\ errno \in ExecErrors

\* C5: when the replacement call returns, the launcher goes on to report the
\* failure on standard error and to return 1 (it does not hang); it never
\* returns 0 after a call, and it never issues a second call.
C5_ExecFailure ==
    /\ (pc = "exec_returned")
          ~> (pc = "done" /\ exitCode = <<1>> /\ FailureReported /\ execCalls = 1)
    /\ []((pc = "done" /\ execCalls >= 1) => (exitCode = <<1>> /\ FailureReported))
    /\ [][execCalls >= 1 => execCalls' = execCalls]_vars

\* C5's case: a launcher has returned after its replacement call failed.
C5_Witness ==
    /\ pc = "done" /\ execCalls = 1 /\ errno = "ENOENT"

HelpFirst == argc > 1 /\ argv[1] = "--help"

\* C6: a launcher returns 0 only if it is agent-noshrc with "--help" as
\* argument 1, and then it has printed the banner and issued no replacement
\* call; agent-noshrc with "--help" first never gets past the banner; with
\* any other argument list it does not return without having issued the
\* call, and the call carries every caller argument, a later "--help"
\* included, unchanged.
C6_HelpOnly ==
    /\ (pc = "done" /\ exitCode = <<0>>)
          => (variant = NOSHRC /\ HelpFirst /\ execCalls = 0 /\ Len(stdout) = 3
              /\ stdout[3] = <<"Usage: %s <agent-request>\n", argv[0]>>)
    /\ (variant = NOSHRC /\ HelpFirst)
          => (execCalls = 0 /\ pc \in {"start", "done"}
              /\ (pc = "done" => exitCode = <<0>>))
    /\ (variant = NOSHRC /\ ~HelpFirst)
          => /\ stdout = <<>>
             /\ pc = "done" => execCalls = 1
             /\ (execCalls = 1 /\ argc >= 1) =>
                   \A k \in 1..(argc - 1) : execArgv[2 + k] = argv[k]

\* C6's case: agent-noshrc has returned 0 on "--help".
C6_Witness ==
    /\ variant = NOSHRC /\ pc = "done" /\ exitCode = <<0>>
    /\ argc = 3 /\ argv[1] = "--help"

\* C7: with argc = 1 (the program name and nothing else), agent-noshell
\* never issues the replacement call and never touches the environment, and
\* when it has returned it returned 1 after one usage line on standard
\* error; agent-noshrc does not return without issuing the call, and the
\* vector of the call is the two prefix entries and the sentinel.
C7_NoArguments ==
    argc = 1 =>
        /\ variant = NOSHELL =>
              /\ execCalls = 0
              /\ environ = inherited
              /\ pc \in {"start", "done"}
              /\ pc = "done" =>
                    (exitCode = <<1>> /\ Len(stderr) = 1 /\ stderr[1][1] # "")
        /\ variant = NOSHRC =>
              /\ pc = "done" => execCalls = 1
              /\ execCalls = 1 =>
                    execArgv = <<"/root/.mobile-agent/.claude_venv/bin/python",
                                 "/root/.mobile-agent/agent", NULL>>

\* C7's case: agent-noshell has returned on an empty request, with an
\* inherited environment that is not empty.
C7_Witness ==
    /\ variant = NOSHELL /\ argc = 1 /\ pc = "done"
    /\ Len(inherited) = 3

\* C8: at most one replacement call is issued, and the program it names is
\* the launcher's compiled-in interpreter path.
C8_OneFixedProgram ==
    /\ execCalls <= 1
    /\ execCalls = 1 =>
          execPath = (IF variant = NOSHELL
                      THEN "/usr/bin/python3"
                      ELSE "/root/.mobile-agent/.claude_venv/bin/python")

\* C8's case: agent-noshrc's call replaced the process, with "--help" among
\* the arguments and as the program name.
C8_Witness ==
    /\ variant = NOSHRC /\ execCalls = 1 /\ pc = "replaced"
    /\ argc = 3 /\ argv[0] = "--help" /\ argv[2] = "--help"

\* C9 as stated: for every argc >= 0, the vector handed to the replacement
\* call begins with the complete fixed prefix, the target script path
\* included.
C9_AsStated ==
    execCalls = 1 =>
        /\ Len(execArgv) >= PrefixLen + 1
        /\ SubSeq(execArgv, 1, PrefixLen) = ExpectedPrefix

\* C10: every slot written lies inside the array (python_argv has 1024
\* slots, agent_args has argc + 2); and when agent-noshell is given more
\* than 1019 caller arguments, the call is issued with the prefix, the first
\* 1019 caller arguments in order and the sentinel, and nothing was written
\* to standard error before the call.
C10_WritesInBounds ==
    /\ variant = NOSHELL => DOMAIN python_argv \subseteq 0..1023
    /\ variant = NOSHRC => DOMAIN agent_args \subseteq 0..(argc + 1)
    /\ (variant = NOSHELL /\ execCalls = 1 /\ argc - 1 > 1019) =>
          /\ Len(execArgv) = 1024
          /\ SubSeq(execArgv, 1, 4) = ExpectedPrefix
          /\ \A k \in 1..1019 : execArgv[4 + k] = argv[k]
          /\ execArgv[1024] = NULL
          /\ pc = "replaced" => stderr = <<>>
          /\ pc = "exec_returned" => stderr = <<>>

\* C10's case: agent-noshell issued the call after being given 1024 caller
\* arguments, more than the array has slots.
C10_Witness ==
    /\ variant = NOSHELL /\ execCalls = 1
    /\ argc - 1 = 1024
    /\ Len(execArgv) = 1024
====
